---- MODULE Spec2Model ----
(***************************************************************************)
(* Verification model of the NextGenSandboxHub orchestration code:         *)
(*   - the partition planner   (src/src/python/runner.py)                  *)
(*   - the basins_passed ledger (src/src/python/driver.py)                 *)
(*   - the wallclock supervisor (src/tools/hpc/sandbox_launcher.py)        *)
(*   - the batch launcher       (src/tools/launcher/sandbox_launcher.py)   *)
(* Each component has its own specification (SpecPlan for the planner,     *)
(* SpecLedger for the ledger, Spec for the two launchers); the variables   *)
(* of the other components stay at their idle values.                      *)
(***************************************************************************)
EXTENDS Integers, Sequences, FiniteSets, TLC

(***************************************************************************)
(* Bounds of the model                                                     *)
(***************************************************************************)
\* largest catchment count (num_divides) of a basin drawn for the planner
MaxCats == 210
\* largest np_per_basin (processor budget) drawn for the planner
MaxProcs == 12
\* number of basins (gpkg directories) under the input root
NBasins == 3
\* general.iterations of the base calibration config
Iterations == 2
\* jobs alive at once: a new invocation of a launcher starts only while
\* fewer are alive
MaxLive == 2
\* processes of a multiprocessing pool (basins_in_par)
MaxPool == 2
\* config-generation passes over one output tree
MaxPasses == 2

(***************************************************************************)
(* Program constants                                                       *)
(***************************************************************************)
\* runner.py line 222: hard upper bound on workers per basin
MaxWorkersPerBasin == 20
\* hpc/sandbox_launcher.py line 82: max_iter of a gage without calib config
DEFAULT_MAX_ITER == -1
\* runner.py line 64: formulation.basins_in_par when the config does not set it
basins_in_par == 1

VARIABLES
  \* ---- partition planner (Runner) ----
  ncats,                  \* catchment count of the basin (int(ncats))
  np_per_basin,           \* self.np_per_basin
  np_per_basin_adaptive,  \* self.np_per_basin_adaptive (truthiness)
  np_per_basin_local,     \* worker count in use after the call (0: not yet)
  file_par,               \* workers the partition artifact was generated for (0: none)
  pcPlan,                 \* "start" | "planned" | "launched"
  \* ---- basins_passed.csv ledger (Driver) ----
  basins_passed,          \* the ledger file: [exists, rows]
  lastPass,               \* the last config-generation pass: its inputs and outcome
  repeated,               \* the last two passes completed over the same basins
  \* ---- launchers: on-disk artifacts, per gage ----
  info_file,              \* info_<gage>.yml exists (written by sandbox -conf)
  calib_cfg,              \* calib_config_<gage>.yaml: <<>> or <<iterations>>
  best_params,            \* *_worker/best_params.txt: <<>> or <<first value>>
  validation_file,        \* output_sim_obs/sim_obs_validation.csv exists
  configs,                \* <output_dir>/configs holds the generated files
  \* ---- launchers: external jobs ----
  jobs,                   \* live sbatch jobs per gage and stage (saturating)
  proc,                   \* state of the Popen child of this invocation, per gage
  terminate_called,       \* proc.terminate() was called on the child, per gage
  proc_stage,             \* calibration config the child was started with
  unwritten,              \* live fresh calibrations yet to write best_params.txt
  advanced,               \* gages whose running child has written since its dispatch
  \* ---- launchers: the invocation ----
  launcher,               \* "hpc" (tools/hpc) or "batch" (tools/launcher)
  use_slurm,              \* use_slurm
  pc,                     \* position of the invocation in main() / runner()
  gi,                     \* loop index into gage_ids
  running_processes,      \* keys of running_processes
  max_iter,               \* max_iter as left by the launch loop
  current_iter,           \* current_iter as read in the last launch iteration
  dispatched,             \* stage submitted by the last launch iteration, or "none"
  config_requested,       \* the last launch iteration generated the config files
  deadline,               \* time.time() >= end_time
  decision,               \* "none" | "nothing_to_run" | "resubmit" | "complete"
  \* ---- a config-generation pass, statement by statement (Driver) ----
  main_pc,                \* position of Driver.run / Driver.main
  this_pass,              \* configuration and locals of the pass under way
  results,                \* pool.map: state of generate_catchment_files per basin
  sim_yaml_file,          \* info_<basin>.yml: 0 (absent) or the sim_info written
  \* ---- the run stage (Runner, runner.py) ----
  run_cfg,                \* the workflow configuration of the run
  run_pc,                 \* position of the controlling process
  self_gage_ids,          \* self.gage_ids, and whether it was ever assigned
  task,                   \* per basin of the workload: stage and what was handed
  pool                    \* per process: working directory and current basin

planVars == <<ncats, np_per_basin, np_per_basin_adaptive, np_per_basin_local,
              file_par, pcPlan>>

ledgerVars == <<basins_passed, lastPass, repeated>>

diskVars == <<info_file, calib_cfg, best_params, validation_file, configs>>

jobVars == <<jobs, proc, terminate_called, proc_stage, unwritten, advanced>>

invVars == <<launcher, use_slurm, pc, gi, running_processes, max_iter,
             current_iter, dispatched, config_requested, deadline, decision>>

passVars == <<main_pc, this_pass, results, sim_yaml_file>>

runVars == <<run_cfg, run_pc, self_gage_ids, task, pool>>

restVars == <<passVars, runVars>>

supVars == <<diskVars, jobVars, invVars, restVars>>

vars == <<planVars, ledgerVars, supVars>>

Min(a, b) == IF a <= b THEN a ELSE b

(***************************************************************************)
(* Partition planner                                                       *)
(***************************************************************************)
\* Python's int(a / b) for a >= 0, b > 0: true division truncated toward zero
PyIntDiv(a, b) == a \div b

\* a plausible slip: the cap of 20 workers is forgotten
generate_partition_basin_file_nocap(nc, np, adaptive) ==
  LET n == IF nc <= np THEN nc
           ELSE IF adaptive THEN PyIntDiv(nc, np)
           ELSE np
  IN [np_per_basin_local |-> n, fpar |-> IF n > 1 THEN n ELSE 0]

\* a plausible slip: the clamp to the catchment count is forgotten
generate_partition_basin_file_noclamp(nc, np, adaptive) ==
  LET n == IF adaptive THEN Min(PyIntDiv(nc, np), MaxWorkersPerBasin)
           ELSE np
  IN [np_per_basin_local |-> n, fpar |-> IF n > 1 THEN n ELSE 0]

\* Runner.generate_partition_basin_file: the worker count and the partition
\* artifact requested (fpar: configs/partitions_<n>.json, 0 when none)
generate_partition_basin_file(nc, np, adaptive) ==
  LET n == IF nc <= np THEN nc
           ELSE IF adaptive THEN Min(PyIntDiv(nc, np), MaxWorkersPerBasin)
           ELSE np
  IN [np_per_basin_local |-> n, fpar |-> IF n > 1 THEN n ELSE 0]

\* Runner.run_ngen_with_calibration, lines 157-163: the worker count the
\* basin is launched with
LaunchWorkers(nc, np, adaptive) ==
  IF np > 1 THEN generate_partition_basin_file(nc, np, adaptive)
  ELSE [np_per_basin_local |-> np, fpar |-> 0]

IdleLedger ==
  /\ basins_passed = [exists |-> FALSE, rows |-> <<>>]
  /\ lastPass = [ran |-> FALSE]
  /\ repeated = FALSE

IdlePass ==
  /\ main_pc = "idle" /\ this_pass = <<>> /\ results = <<>>
  /\ sim_yaml_file = <<>>

IdleRun ==
  /\ run_cfg = <<>> /\ run_pc = "idle" /\ self_gage_ids = [assigned |-> FALSE, ids |-> <<>>]
  /\ task = <<>> /\ pool = <<>>

IdleRest == IdlePass /\ IdleRun

IdleSup ==
  /\ info_file = <<>> /\ calib_cfg = <<>> /\ best_params = <<>>
  /\ validation_file = <<>> /\ configs = <<>>
  /\ jobs = <<>> /\ proc = <<>> /\ terminate_called = <<>>
  /\ proc_stage = <<>> /\ unwritten = <<>> /\ advanced = {}
  /\ launcher = "none" /\ use_slurm = FALSE /\ pc = "idle" /\ gi = 0
  /\ running_processes = {} /\ max_iter = 0 /\ current_iter = 0
  /\ dispatched = "none" /\ config_requested = FALSE
  /\ deadline = FALSE /\ decision = "none"

InitPlan ==
  /\ IdleLedger
  /\ IdleSup /\ IdleRest
  /\ ncats \in 1..MaxCats
  /\ np_per_basin \in 1..MaxProcs
  /\ np_per_basin_adaptive \in BOOLEAN
  /\ np_per_basin_local = 0
  /\ file_par = 0
  /\ pcPlan = "start"

\* a direct call of the planner
PlanCall ==
  /\ pcPlan = "start"
  /\ LET r == generate_partition_basin_file(ncats, np_per_basin, np_per_basin_adaptive)
     IN /\ np_per_basin_local' = r.np_per_basin_local
        /\ file_par' = r.fpar
  /\ pcPlan' = "planned"
  /\ UNCHANGED <<ncats, np_per_basin, np_per_basin_adaptive>>
  /\ UNCHANGED <<ledgerVars, supVars>>

\* the planning prefix of run_ngen_with_calibration
PlanLaunch ==
  /\ pcPlan = "start"
  /\ LET r == LaunchWorkers(ncats, np_per_basin, np_per_basin_adaptive)
     IN /\ np_per_basin_local' = r.np_per_basin_local
        /\ file_par' = r.fpar
  /\ pcPlan' = "launched"
  /\ UNCHANGED <<ncats, np_per_basin, np_per_basin_adaptive>>
  /\ UNCHANGED <<ledgerVars, supVars>>

NextPlan == PlanCall \/ PlanLaunch

SpecPlan == InitPlan /\ [][NextPlan]_vars


(***************************************************************************)
(* The basins_passed.csv ledger: Driver.main                               *)
(***************************************************************************)
\* the subdirectories of input_dir (glob '*/'); the directory name is the
\* gage id of the basin
all_dirs == 1..(NBasins + 1)

\* the directory has a data folder that contains a .gpkg file
HasGpkg(d) == d <= NBasins

\* the basins discovered under the input root (load_gpkg_dirs lines 312-316)
Basins == {d \in all_dirs : HasGpkg(d)}

\* the stem of the .gpkg file of a basin, as a string of characters, e.g.
\* "g1", "g2", "g12"
Stem(b) == IF b = 3 THEN <<7, 1, 2>> ELSE <<7, b>>

\* the ids a user may list in simulation.gage_ids, e.g. "1", "2", "12", "21"
UserIds == {<<1>>, <<2>>, <<1, 2>>, <<2, 1>>}

\* Python's  t in s  for strings
Contains(s, t) ==
  \E i \in 0..(Len(s) - Len(t)) : SubSeq(s, i + 1, i + Len(t)) = t

\* geopackage contents: the number of divides of a basin
NumDivides(b) == b + 1

\* a ledger row <<gage_id, num_divides>>; the header row is <<0, 0>>
HeaderRow == <<0, 0>>
Row(b) == <<b, NumDivides(b)>>

RECURSIVE SeqOfSet(_)
\* a set of basins in directory (glob) order
SeqOfSet(S) ==
  IF S = {} THEN <<>>
  ELSE LET m == CHOOSE x \in S : \A y \in S : x <= y
       IN <<m>> \o SeqOfSet(S \ {m})

\* simulation.gage_ids of the sandbox config: None, or a list of ids
GageIdInputs ==
  {[none |-> TRUE, ids |-> {}]} \cup {[none |-> FALSE, ids |-> s] : s \in SUBSET UserIds}

\* a plausible slip: an id is compared with the whole stem
load_gpkg_dirs_exact(g) ==
  IF g.none \/ g.ids = {} THEN Basins
  ELSE {b \in Basins : \E gid \in g.ids : Stem(b) = gid}

\* Driver.load_gpkg_dirs: the directories retained for this pass (the
\* assertion of line 338 is the guard of the passes below)
load_gpkg_dirs(g) ==
  IF g.none \/ g.ids = {} THEN Basins
  ELSE {b \in Basins : \E gid \in g.ids : Contains(Stem(b), gid)}

\* csv.DictReader over the ledger: the gage_id column of the rows after the
\* first (header) row
ReadExistingGages(file) ==
  {file.rows[i][1] : i \in 2..Len(file.rows)}

\* a plausible slip: ids already in the ledger are not filtered out
NewGages_nofilter(basin_ids, existing_gages) ==
  [i \in 1..Len(basin_ids) |-> Row(basin_ids[i])]

\* Driver.main lines 281-284: the rows of ids not yet in the ledger
NewGages(basin_ids, existing_gages) ==
  LET keep == SelectSeq(basin_ids, LAMBDA b : b \notin existing_gages)
  IN [i \in 1..Len(keep) |-> Row(keep[i])]

\* Driver.main lines 250-293, for a pass in which every worker returned
WriteLedger(file, g, basin_ids) ==
  LET file_exists    == file.exists
      afterRemove    == IF g.none /\ file_exists
                        THEN [exists |-> FALSE, rows |-> <<>>] ELSE file
      existing_gages == IF ~g.none /\ file_exists /\ Len(file.rows) > 0
                        THEN ReadExistingGages(file) ELSE {}
      new_gages      == NewGages(basin_ids, existing_gages)
      \* open(mode): 'a' keeps what is there (creating the file), 'w' truncates
      opened         == IF file_exists THEN afterRemove.rows ELSE <<>>
      header         == IF ~file_exists \/ Len(opened) = 0 THEN <<HeaderRow>> ELSE <<>>
  IN [exists |-> TRUE, rows |-> opened \o header \o new_gages]

\* Driver.main lines 254-257, for a pass in which a worker raised: pool.map
\* re-raises in the controlling process before the ledger is written
AbortLedger(file, g) ==
  IF g.none /\ file.exists THEN [exists |-> FALSE, rows |-> <<>>] ELSE file

\* a plausible slip: the assertion is missing and main runs over no basin
EmptyWorkload_noassert(file, g) == WriteLedger(file, g, <<>>)

\* Driver.run lines 363 and 338, for an empty workload: the assertion fails
\* before main is called, so the ledger is not touched
EmptyWorkload(file, g) == file

InitLedger ==
  /\ basins_passed = [exists |-> FALSE, rows |-> <<>>]
  /\ lastPass = [ran |-> FALSE]
  /\ repeated = FALSE
  /\ ncats = 1 /\ np_per_basin = 1 /\ np_per_basin_adaptive = FALSE
  /\ np_per_basin_local = 0 /\ file_par = 0 /\ pcPlan = "idle"
  /\ IdleSup /\ IdleRest

PassRecord(g, dirs, setup, failing, completed) ==
  [ran |-> TRUE, none |-> g.none, ids |-> g.ids, dirs |-> dirs,
   setup |-> setup, failed |-> failing, completed |-> completed]

\* one config-generation pass (Driver.run -> Driver.main) in which every
\* basin's generate_catchment_files returns
DriverMainCompletes ==
  \E g \in GageIdInputs, setup \in BOOLEAN :
    LET dirs      == load_gpkg_dirs(g)
        \* setup_simulation false: every worker returns None
        basin_ids == IF setup THEN SeqOfSet(dirs) ELSE <<>>
    IN /\ dirs # {}
       /\ basins_passed' = WriteLedger(basins_passed, g, basin_ids)
       /\ lastPass' = PassRecord(g, dirs, setup, {}, TRUE)
       /\ repeated' = (/\ lastPass.ran /\ lastPass.completed /\ lastPass.setup
                       /\ setup /\ lastPass.dirs = dirs)
       /\ UNCHANGED <<planVars, supVars>>

\* one config-generation pass in which generate_catchment_files raises for
\* one basin (no descriptor, unreadable geopackage, generation error)
DriverMainRaises ==
  \E g \in GageIdInputs, setup \in BOOLEAN :
    LET dirs == load_gpkg_dirs(g)
    IN \E f \in dirs :
         /\ basins_passed' = AbortLedger(basins_passed, g)
         /\ lastPass' = PassRecord(g, dirs, setup, {f}, FALSE)
         /\ repeated' = FALSE
         /\ UNCHANGED <<planVars, supVars>>

\* a run (Driver.run) whose discovery yields no basin: the assertion of
\* load_gpkg_dirs raises and nothing calls the run again
DriverRunEmpty ==
  \E g \in GageIdInputs, setup \in BOOLEAN :
    LET dirs == load_gpkg_dirs(g)
    IN /\ dirs = {}
       /\ basins_passed' = EmptyWorkload(basins_passed, g)
       /\ lastPass' = PassRecord(g, dirs, setup, {}, FALSE)
       /\ repeated' = FALSE
       /\ UNCHANGED <<planVars, supVars>>

NextLedger == DriverMainCompletes \/ DriverMainRaises \/ DriverRunEmpty

SpecLedger == InitLedger /\ [][NextLedger]_vars

\* the basin ids recorded in the ledger
LedgerIds == {basins_passed.rows[i][1] : i \in 2..Len(basins_passed.rows)}

\* the number of rows of the ledger that equal r
CountRows(r) == Cardinality({i \in 1..Len(basins_passed.rows) : basins_passed.rows[i] = r})

(***************************************************************************)
(* The launchers: on-disk artifacts and progress                           *)
(***************************************************************************)
\* gage_ids of the hpc launcher (line 12)
gage_ids == <<1, 2>>

Gages == {gage_ids[i] : i \in DOMAIN gage_ids}

\* the (gage, model) pairs of the batch launcher: mapping.keys() x
\* get_models_for_gage (lines 279-286); each pair has its own directories
mapping_keys == <<1>>

\* the calibration config a launch can name
Stages == {"calibrate", "restart", "validate"}

\* hpc get_max_iter_for_gage: general.iterations, DEFAULT_MAX_ITER if no file
get_max_iter_for_gage(cfg, g) ==
  IF cfg[g] # <<>> THEN cfg[g][1] ELSE DEFAULT_MAX_ITER

\* batch get_max_iter: general.iterations, 0 if no file
get_max_iter(cfg, g) ==
  IF cfg[g] = <<>> THEN 0 ELSE cfg[g][1]

\* hpc get_current_iteration: 0 without info file or best_params.txt, else
\* the first value of best_params.txt plus one
get_current_iteration(info, bp, g) ==
  IF ~info[g] THEN 0
  ELSE IF bp[g] = <<>> THEN 0
  ELSE bp[g][1] + 1

\* batch get_current_iteration: 0 without info file or best_params.txt, else
\* the first value of best_params.txt (the "+ 1" is commented out)
get_current_iteration_batch(info, bp, g) ==
  IF ~info[g] THEN 0
  ELSE IF bp[g] = <<>> THEN 0
  ELSE bp[g][1]

\* batch check_validation_exists
check_validation_exists(info, vf, g) ==
  IF ~info[g] THEN FALSE ELSE vf[g]

\* a plausible slip: the restart config is chosen one iteration late
CalibFile_late(cur) == IF cur > 1 THEN "restart" ELSE "calibrate"

\* hpc run_experiment lines 127-129: the calibration config handed to the job
CalibFile(cur) == IF cur > 0 THEN "restart" ELSE "calibrate"

\* batch run_experiment line 213
CalibFileBatch(cur) == IF cur = 0 THEN "calibrate" ELSE "restart"

\* a plausible slip: the validation config is chosen one iteration late
SandboxFileBatch_late(cur, mx) == IF cur <= mx THEN "main" ELSE "validation"

\* batch run_experiment line 216: main or validation sandbox config
SandboxFileBatch(cur, mx) == IF cur < mx THEN "main" ELSE "validation"

\* the outcomes of sandbox -conf (subprocess.run, result not checked): the
\* files are generated; it fails before Driver.generate_catchment_files (no
\* info file written, nothing removed); or it fails after
\* helper.create_clean_dirs removed configs/ and before they are generated
ConfOutcomes == {"ok", "no_info", "no_configs"}

\* generate_config_files_for_gage: the launcher writes the calib config
\* itself; sandbox -conf writes the info file when it gets that far
GenCalibCfg(cfg, g) == [cfg EXCEPT ![g] = <<Iterations>>]
GenInfoFile(info, g, conf_ok) == IF conf_ok THEN [info EXCEPT ![g] = TRUE] ELSE info

\* helper.create_clean_dirs removes configs/ (lines 40-47); Generate then
\* writes the files of the basin
GenConfigs(cf, g, conf) ==
  IF conf = "no_info" THEN cf ELSE [cf EXCEPT ![g] = (conf = "ok")]

\* one more live job of gage g in stage st (sbatch)
Submit(j, g, st) == [j EXCEPT ![g][st] = Min(@ + 1, MaxLive)]

\* a job of gage g is alive: the child of this invocation, or a job no
\* invocation holds a handle of (a queued or running sbatch job, a child
\* left running by an earlier invocation)
Live(g) == proc[g] = "RUNNING" \/ \E st \in Stages : jobs[g][st] > 0

\* the live jobs of gage g started with the fresh calibration config
FreshCount(j, p, ps, g) ==
  j[g]["calibrate"] + (IF p[g] = "RUNNING" /\ ps[g] = "calibrate" THEN 1 ELSE 0)

\* the fresh jobs yet to write once the jobs are j, p, ps: a job that ends
\* may or may not have written
StillUnwritten(j, p, ps) ==
  [g \in Gages |-> Min(unwritten[g], FreshCount(j, p, ps, g))]

InitDisk ==
  /\ info_file = [g \in Gages |-> FALSE]
  /\ calib_cfg = [g \in Gages |-> <<>>]
  /\ best_params = [g \in Gages |-> <<>>]
  /\ validation_file = [g \in Gages |-> FALSE]
  /\ configs = [g \in Gages |-> FALSE]

InitJobs ==
  /\ jobs = [g \in Gages |-> [st \in Stages |-> 0]]
  /\ proc = [g \in Gages |-> "PENDING"]
  /\ terminate_called = [g \in Gages |-> FALSE]
  /\ proc_stage = [g \in Gages |-> "none"]
  /\ unwritten = [g \in Gages |-> 0]
  /\ advanced = {}

InitInvocation ==
  /\ pc = "launch" /\ gi = 1
  /\ running_processes = {} /\ max_iter = 0 /\ current_iter = 0
  /\ dispatched = "none" /\ config_requested = FALSE
  /\ deadline = FALSE /\ decision = "none"

\* a fresh output tree and the first invocation of either launcher
Init ==
  /\ IdleLedger
  /\ ncats = 1 /\ np_per_basin = 1 /\ np_per_basin_adaptive = FALSE
  /\ np_per_basin_local = 0 /\ file_par = 0 /\ pcPlan = "idle"
  /\ InitDisk /\ InitJobs /\ InitInvocation /\ IdleRest
  /\ \/ launcher = "hpc" /\ use_slurm \in BOOLEAN
     \/ launcher = "batch" /\ use_slurm = TRUE

Others == <<planVars, ledgerVars, restVars>>

(***************************************************************************)
(* External jobs (sandbox -run: ngen.cal calibration, then validation)     *)
(***************************************************************************)
\* the children that have written once a job of gage g writes: the child of
\* g, when one is running
Written(g) == IF proc[g] = "RUNNING" THEN advanced \cup {g} ELSE advanced

\* a fresh calibration (calib_config_<gage>.yaml, restart not set) starts at
\* iteration 0: its first best_params.txt records 0
JobFirstWrite(g) ==
  /\ unwritten[g] > 0 /\ FreshCount(jobs, proc, proc_stage, g) > 0
  /\ info_file[g]
  /\ best_params' = [best_params EXCEPT ![g] = <<0>>]
  /\ unwritten' = [unwritten EXCEPT ![g] = @ - 1]
  /\ advanced' = Written(g)
  /\ UNCHANGED <<info_file, calib_cfg, validation_file, configs, jobs, proc,
                 terminate_called, proc_stage, invVars, Others>>

\* a live job completes an iteration and rewrites best_params.txt
JobAdvance(g) ==
  /\ Live(g) /\ info_file[g]
  /\ best_params[g] # <<>> /\ best_params[g][1] < Iterations
  /\ best_params' = [best_params EXCEPT ![g] = <<@[1] + 1>>]
  /\ advanced' = Written(g)
  /\ UNCHANGED <<info_file, calib_cfg, validation_file, configs, jobs, proc,
                 terminate_called, proc_stage, unwritten, invVars, Others>>

\* a live job writes the validation output, new or over the one that is
\* there: validation.py runs after ngen.cal whatever its result (runner.py
\* lines 191-211)
JobValidate(g) ==
  /\ Live(g) /\ info_file[g]
  /\ validation_file' = [validation_file EXCEPT ![g] = TRUE]
  /\ advanced' = Written(g)
  /\ UNCHANGED <<info_file, calib_cfg, best_params, configs, jobs, proc,
                 terminate_called, proc_stage, unwritten, invVars, Others>>

\* a job no invocation holds a handle of ends
JobExit(g) ==
  /\ \E st \in Stages :
       /\ jobs[g][st] > 0
       /\ jobs' = [jobs EXCEPT ![g][st] = @ - 1]
  /\ unwritten' = StillUnwritten(jobs', proc, proc_stage)
  /\ UNCHANGED <<proc, terminate_called, proc_stage, advanced, diskVars,
                 invVars, Others>>

\* the Popen child ends by itself
ProcExit(g) ==
  /\ proc[g] = "RUNNING"
  /\ proc' = [proc EXCEPT ![g] = "COMPLETED"]
  /\ proc_stage' = [proc_stage EXCEPT ![g] = "none"]
  /\ unwritten' = StillUnwritten(jobs, proc', proc_stage')
  /\ advanced' = advanced \ {g}
  /\ UNCHANGED <<jobs, terminate_called, diskVars, invVars, Others>>

\* the wallclock passes end_time = start_time + TOTAL_WALLCLOCK - BUFFER_TIME
Tick ==
  /\ launcher = "hpc" /\ ~use_slurm
  /\ pc \in {"launch", "poll", "deadline_check"}
  /\ ~deadline
  /\ deadline' = TRUE
  /\ UNCHANGED <<launcher, use_slurm, pc, gi, running_processes, max_iter,
                 current_iter, dispatched, config_requested, decision,
                 diskVars, jobVars, Others>>

(***************************************************************************)
(* tools/hpc/sandbox_launcher.py: main()                                   *)
(***************************************************************************)
\* lines 155-177: one iteration of the launch loop.  run_experiment is called
\* without its use_slurm argument (line 174), so its default False applies
\* and the job is a Popen child whatever the module-level use_slurm is.
HpcLaunchStep ==
  /\ launcher = "hpc" /\ pc = "launch" /\ gi <= Len(gage_ids)
  /\ LET g   == gage_ids[gi]
         cur == get_current_iteration(info_file, best_params, g)
     IN \E conf \in (IF cur = 0 THEN ConfOutcomes ELSE {"skip"}) :
          LET cfg1 == IF cur = 0 THEN GenCalibCfg(calib_cfg, g) ELSE calib_cfg
              inf1 == IF cur = 0 THEN GenInfoFile(info_file, g, conf # "no_info")
                      ELSE info_file
              mx   == get_max_iter_for_gage(cfg1, g)
              st   == CalibFile(cur)
          IN /\ calib_cfg' = cfg1
             /\ info_file' = inf1
             /\ configs' = (IF cur = 0 THEN GenConfigs(configs, g, conf) ELSE configs)
             /\ config_requested' = (cur = 0)
             /\ current_iter' = cur
             /\ max_iter' = mx
             /\ IF cur < mx
                THEN /\ running_processes' = running_processes \cup {g}
                     /\ dispatched' = st
                     /\ proc' = [proc EXCEPT ![g] = "RUNNING"]
                     /\ proc_stage' = [proc_stage EXCEPT ![g] = st]
                     /\ unwritten' = [unwritten EXCEPT
                                       ![g] = IF st = "calibrate" THEN @ + 1 ELSE @]
                     /\ advanced' = advanced \ {g}
                ELSE /\ dispatched' = "none"
                     /\ UNCHANGED <<running_processes, proc, proc_stage, unwritten,
                                    advanced>>
  /\ gi' = gi + 1
  /\ UNCHANGED <<best_params, validation_file, jobs, terminate_called, launcher,
                 use_slurm, pc, deadline, decision, Others>>

\* the children still running when the invocation ends go on without a
\* handle: they are counted with the jobs no invocation holds
Orphaned(j, p, ps) ==
  [g \in Gages |->
     [st \in Stages |->
        IF p[g] = "RUNNING" /\ ps[g] = st THEN Min(j[g][st] + 1, MaxLive)
        ELSE j[g][st]]]

\* the handles of the ended children, the running ones being let go
Detached(p) ==
  [g \in Gages |-> IF p[g] = "RUNNING" THEN "PENDING" ELSE p[g]]

\* the launcher process ends: its variables are gone, the children it left
\* running go on
ProcessEnds ==
  /\ gi' = 1 /\ running_processes' = {} /\ max_iter' = 0 /\ current_iter' = 0
  /\ dispatched' = "none" /\ config_requested' = FALSE
  /\ jobs' = Orphaned(jobs, proc, proc_stage)
  /\ proc' = Detached(proc)
  /\ proc_stage' = [g \in Gages |-> "none"]
  /\ advanced' = {}
  /\ UNCHANGED <<launcher, use_slurm, deadline, terminate_called, unwritten,
                 diskVars, Others>>

\* lines 179-183: after the launch loop
HpcAfterLaunch ==
  /\ launcher = "hpc" /\ pc = "launch" /\ gi > Len(gage_ids)
  /\ IF running_processes = {}
     THEN pc' = "exit" /\ decision' = "nothing_to_run" /\ ProcessEnds
     ELSE /\ pc' = (IF use_slurm THEN "recheck" ELSE "poll")
          /\ UNCHANGED <<launcher, use_slurm, gi, running_processes, max_iter,
                         current_iter, dispatched, config_requested, deadline,
                         decision, diskVars, jobVars, Others>>

\* a plausible slip: the loop waits for the children whatever the time is
HpcPollExit_blocking ==
  /\ launcher = "hpc" /\ pc = "poll"
  /\ \A g \in running_processes : proc[g] # "RUNNING"
  /\ pc' = "deadline_check"
  /\ UNCHANGED <<launcher, use_slurm, gi, running_processes, max_iter,
                 current_iter, dispatched, config_requested, deadline,
                 decision, diskVars, jobVars, Others>>

\* a plausible slip: the loop is left while a child runs before the deadline
HpcPollExit_early ==
  /\ launcher = "hpc" /\ pc = "poll"
  /\ pc' = "deadline_check"
  /\ UNCHANGED <<launcher, use_slurm, gi, running_processes, max_iter,
                 current_iter, dispatched, config_requested, deadline,
                 decision, diskVars, jobVars, Others>>

\* line 185: the poll loop ends at the deadline or when no child is running
HpcPollExit ==
  /\ launcher = "hpc" /\ pc = "poll"
  /\ deadline \/ \A g \in running_processes : proc[g] # "RUNNING"
  /\ pc' = "deadline_check"
  /\ UNCHANGED <<launcher, use_slurm, gi, running_processes, max_iter,
                 current_iter, dispatched, config_requested, deadline,
                 decision, diskVars, jobVars, Others>>

\* line 189: if time.time() >= end_time
HpcDeadlineCheck ==
  /\ launcher = "hpc" /\ pc = "deadline_check"
  /\ IF deadline
     THEN pc' = "terminate" /\ gi' = 1
     ELSE pc' = "recheck" /\ gi' = gi
  /\ UNCHANGED <<launcher, use_slurm, running_processes, max_iter,
                 current_iter, dispatched, config_requested, deadline,
                 decision, diskVars, jobVars, Others>>

TermFrame ==
  UNCHANGED <<launcher, use_slurm, pc, running_processes, max_iter,
              current_iter, dispatched, config_requested, deadline, decision,
              diskVars, jobs, Others>>

\* lines 191-192: a gage without a child, or whose child has already ended
HpcTerminateSkip ==
  /\ launcher = "hpc" /\ pc = "terminate" /\ gi <= Len(gage_ids)
  /\ gage_ids[gi] \notin running_processes \/ proc[gage_ids[gi]] # "RUNNING"
  /\ gi' = gi + 1
  /\ UNCHANGED <<proc, terminate_called, proc_stage, unwritten, advanced>>
  /\ TermFrame

\* lines 196-198: the child ends by itself within proc.wait(timeout=10);
\* proc.terminate() is then called on the ended child
HpcTerminateWaitEnded ==
  /\ launcher = "hpc" /\ pc = "terminate" /\ gi <= Len(gage_ids)
  /\ gage_ids[gi] \in running_processes /\ proc[gage_ids[gi]] = "RUNNING"
  /\ proc' = [proc EXCEPT ![gage_ids[gi]] = "COMPLETED"]
  /\ terminate_called' = [terminate_called EXCEPT ![gage_ids[gi]] = TRUE]
  /\ proc_stage' = [proc_stage EXCEPT ![gage_ids[gi]] = "none"]
  /\ unwritten' = StillUnwritten(jobs, proc', proc_stage')
  /\ advanced' = advanced \ {gage_ids[gi]}
  /\ gi' = gi + 1
  /\ TermFrame

\* lines 196-202: proc.wait(timeout=10) raises TimeoutExpired, so
\* proc.terminate() is skipped and the child is killed
HpcTerminateKill ==
  /\ launcher = "hpc" /\ pc = "terminate" /\ gi <= Len(gage_ids)
  /\ gage_ids[gi] \in running_processes /\ proc[gage_ids[gi]] = "RUNNING"
  /\ proc' = [proc EXCEPT ![gage_ids[gi]] = "TERMINATED"]
  /\ terminate_called' = terminate_called
  /\ proc_stage' = [proc_stage EXCEPT ![gage_ids[gi]] = "none"]
  /\ unwritten' = StillUnwritten(jobs, proc', proc_stage')
  /\ advanced' = advanced \ {gage_ids[gi]}
  /\ gi' = gi + 1
  /\ TermFrame

\* line 203: running_processes.clear()
HpcTerminateDone ==
  /\ launcher = "hpc" /\ pc = "terminate" /\ gi > Len(gage_ids)
  /\ running_processes' = {}
  /\ pc' = "recheck"
  /\ UNCHANGED <<launcher, use_slurm, gi, max_iter, current_iter, dispatched,
                 config_requested, deadline, decision, diskVars, jobVars, Others>>

\* a plausible slip: a gage counts as incomplete while a job of it is alive
StillIncomplete_live ==
  {g \in Gages : Live(g)}

\* lines 207-212: the gages whose re-read iteration is below max_iter
StillIncomplete ==
  {g \in Gages : get_current_iteration(info_file, best_params, g) < max_iter}

\* lines 206-223: re-read the progress, resubmit or report completion
HpcRecheck ==
  /\ launcher = "hpc" /\ pc = "recheck"
  /\ IF StillIncomplete # {}
     THEN decision' = "resubmit" /\ pc' = "resubmitted"
     ELSE decision' = "complete" /\ pc' = "exit"
  /\ ProcessEnds

(***************************************************************************)
(* tools/launcher/sandbox_launcher.py: runner()                            *)
(***************************************************************************)
\* lines 295-306 with run_experiment (202-239): one gage and model
BatchLaunchStep ==
  /\ launcher = "batch" /\ pc = "launch" /\ gi <= Len(mapping_keys)
  /\ LET g   == mapping_keys[gi]
         cur == get_current_iteration_batch(info_file, best_params, g)
         mx0 == get_max_iter(calib_cfg, g)
     IN \E conf \in (IF cur = 0 THEN ConfOutcomes ELSE {"skip"}) :
          LET cfg1 == IF cur = 0 THEN GenCalibCfg(calib_cfg, g) ELSE calib_cfg
              inf1 == IF cur = 0 THEN GenInfoFile(info_file, g, conf # "no_info")
                      ELSE info_file
              mx   == get_max_iter(cfg1, g)
              sb   == SandboxFileBatch(cur, mx)
              st   == IF sb = "validation" THEN "validate" ELSE CalibFileBatch(cur)
          IN /\ calib_cfg' = cfg1
             /\ info_file' = inf1
             /\ configs' = (IF cur = 0 THEN GenConfigs(configs, g, conf) ELSE configs)
             /\ config_requested' = (cur = 0)
             /\ current_iter' = cur
             /\ max_iter' = mx0
             /\ IF cur <= mx0 /\ ~check_validation_exists(inf1, validation_file, g)
                THEN /\ dispatched' = st
                     /\ jobs' = Submit(jobs, g, st)
                     /\ unwritten' = [unwritten EXCEPT
                                       ![g] = IF st = "calibrate" THEN @ + 1 ELSE @]
                ELSE /\ dispatched' = "none"
                     /\ UNCHANGED <<jobs, unwritten>>
  /\ gi' = gi + 1
  /\ UNCHANGED <<best_params, validation_file, proc, terminate_called,
                 proc_stage, advanced, launcher, use_slurm, pc,
                 running_processes, deadline, decision, Others>>

\* line 310: the launcher finishes
BatchFinish ==
  /\ launcher = "batch" /\ pc = "launch" /\ gi > Len(mapping_keys)
  /\ pc' = "exit" /\ decision' = decision
  /\ ProcessEnds

\* the jobs of gage g that are alive
NumLive(g) ==
  jobs[g]["calibrate"] + jobs[g]["restart"] + jobs[g]["validate"]
    + (IF proc[g] = "RUNNING" THEN 1 ELSE 0)

\* the jobs of the first n gages that are alive
RECURSIVE TotalLive(_)
TotalLive(n) == IF n = 0 THEN 0 ELSE NumLive(gage_ids[n]) + TotalLive(n - 1)

\* a new invocation: the resubmitted launcher (sbatch submit_launcher.slurm,
\* os.execvp) or a later run of the launcher; only the disk carries over.
\* It starts while fewer than MaxLive jobs of each gage are alive.
StartInvocation ==
  /\ pc \in {"resubmitted", "exit"}
  /\ TotalLive(Len(gage_ids)) < MaxLive
  /\ pc' = "launch"
  /\ deadline' = FALSE /\ decision' = "none"
  /\ proc' = [g \in Gages |-> "PENDING"]
  /\ terminate_called' = [g \in Gages |-> FALSE]
  /\ UNCHANGED <<launcher, use_slurm, gi, running_processes, max_iter,
                 current_iter, dispatched, config_requested, jobs, proc_stage,
                 unwritten, advanced, diskVars, Others>>

Next ==
  \/ HpcLaunchStep \/ HpcAfterLaunch \/ HpcPollExit \/ HpcDeadlineCheck
  \/ HpcTerminateSkip \/ HpcTerminateWaitEnded \/ HpcTerminateKill
  \/ HpcTerminateDone \/ HpcRecheck
  \/ BatchLaunchStep \/ BatchFinish
  \/ StartInvocation
  \/ Tick
  \/ \E g \in Gages : \/ JobFirstWrite(g) \/ JobAdvance(g) \/ JobValidate(g)
                      \/ JobExit(g) \/ ProcExit(g)

Spec == Init /\ [][Next]_vars

(***************************************************************************)
(* The hpc launcher under fair scheduling                                  *)
(***************************************************************************)
\* use_slurm = False (line 22); with use_slurm set the poll loop and the
\* deadline handling are skipped (line 183)
InitHpc == Init /\ launcher = "hpc" /\ ~use_slurm

\* the statements of main(), one after the other
HpcStep ==
  \/ HpcLaunchStep \/ HpcAfterLaunch \/ HpcPollExit \/ HpcDeadlineCheck
  \/ HpcTerminateSkip \/ HpcTerminateWaitEnded \/ HpcTerminateKill
  \/ HpcTerminateDone \/ HpcRecheck

NextHpc ==
  \/ HpcStep
  \/ StartInvocation
  \/ Tick
  \/ \E g \in Gages : \/ JobFirstWrite(g) \/ JobAdvance(g) \/ JobValidate(g)
                      \/ ProcExit(g)

\* main() is a sequential program whose statements return: time.sleep(10),
\* proc.wait(timeout=10) and proc.wait() after proc.kill() are bounded, and
\* the wallclock advances.  Nothing is assumed of the jobs: a child may
\* never exit by itself, and no new invocation need ever start.
SpecHpcFair ==
  InitHpc /\ [][NextHpc]_vars /\ WF_vars(HpcStep) /\ WF_vars(Tick)

(***************************************************************************)
(* The resubmission chain of the hpc launcher, with runs that advance      *)
(***************************************************************************)
\* a write of the running child of gage g: the checkpoint or the validation
\* output
RunWrites(g) ==
  /\ proc[g] = "RUNNING"
  /\ JobFirstWrite(g) \/ JobAdvance(g) \/ JobValidate(g)

\* the first write of a child since its dispatch
RunFirstWrites == \E g \in Gages : g \notin advanced /\ RunWrites(g)

\* the statements of main() where every child has written before it ends
\* or is terminated and where config generation (sandbox.py -conf) succeeds
ChainStep ==
  \/ /\ HpcLaunchStep
     /\ config_requested' => info_file'[gage_ids[gi]] /\ configs'[gage_ids[gi]]
  \/ HpcAfterLaunch \/ HpcPollExit \/ HpcDeadlineCheck
  \/ HpcTerminateSkip
  \/ HpcTerminateWaitEnded /\ gage_ids[gi] \in advanced
  \/ HpcTerminateKill /\ gage_ids[gi] \in advanced
  \/ HpcTerminateDone \/ HpcRecheck

\* line 220: os.execvp replaces the launcher by a new invocation
Resubmitted == pc = "resubmitted" /\ StartInvocation

NextChain ==
  \/ ChainStep
  \/ Resubmitted
  \/ Tick
  \/ \E g \in Gages : \/ RunWrites(g)
                      \/ ProcExit(g) /\ g \in advanced

\* main() runs on, the wallclock advances, execvp takes effect, and every
\* child writes at least once
SpecChainFair ==
  /\ InitHpc /\ [][NextChain]_vars
  /\ WF_vars(ChainStep) /\ WF_vars(Tick) /\ WF_vars(Resubmitted)
  /\ WF_vars(RunFirstWrites)

(***************************************************************************)
(* The progress readers on an arbitrary output tree                        *)
(***************************************************************************)
\* calib_config_<gage>.yaml: absent, or general.iterations
CalibCfgStates == {<<>>} \cup {<<i>> : i \in 0..Iterations}

\* best_params.txt: absent, or the last completed iteration
BestParamsStates == {<<>>} \cup {<<v>> : v \in 0..Iterations}

\* the files of an output tree as some earlier use left them
InitProgress ==
  /\ IdleLedger
  /\ ncats = 1 /\ np_per_basin = 1 /\ np_per_basin_adaptive = FALSE
  /\ np_per_basin_local = 0 /\ file_par = 0 /\ pcPlan = "idle"
  /\ info_file \in [Gages -> BOOLEAN]
  /\ calib_cfg \in [Gages -> CalibCfgStates]
  /\ best_params \in [Gages -> BestParamsStates]
  /\ validation_file \in [Gages -> BOOLEAN]
  /\ configs = [g \in Gages |-> FALSE]
  /\ InitJobs /\ InitInvocation /\ IdleRest
  /\ \/ launcher = "hpc" /\ use_slurm = FALSE
     \/ launcher = "batch" /\ use_slurm = TRUE

\* hpc get_current_iteration and get_max_iter_for_gage of the next gage
HpcProgress ==
  /\ launcher = "hpc" /\ pc = "launch" /\ gi <= Len(gage_ids)
  /\ current_iter' = get_current_iteration(info_file, best_params, gage_ids[gi])
  /\ max_iter' = get_max_iter_for_gage(calib_cfg, gage_ids[gi])
  /\ gi' = gi + 1
  /\ UNCHANGED <<launcher, use_slurm, pc, running_processes, dispatched,
                 config_requested, deadline, decision, diskVars, jobVars, Others>>

\* batch get_current_iteration and get_max_iter of the next gage
BatchProgress ==
  /\ launcher = "batch" /\ pc = "launch" /\ gi <= Len(gage_ids)
  /\ current_iter' = get_current_iteration_batch(info_file, best_params, gage_ids[gi])
  /\ max_iter' = get_max_iter(calib_cfg, gage_ids[gi])
  /\ gi' = gi + 1
  /\ UNCHANGED <<launcher, use_slurm, pc, running_processes, dispatched,
                 config_requested, deadline, decision, diskVars, jobVars, Others>>

NextProgress == HpcProgress \/ BatchProgress

SpecProgress == InitProgress /\ [][NextProgress]_vars

(***************************************************************************)
(* A config-generation pass, statement by statement: Driver.run,           *)
(* Driver.main and the pool workers running generate_catchment_files       *)
(***************************************************************************)
\* the sim_info documents a pass can write: the configured input_dir and
\* output_dir strings and the working directory differ from pass to pass
SimInfos == 1..2

\* simulation.gage_ids of the passes: None, "1" or "2"
PassGageIds ==
  {[none |-> TRUE, ids |-> {}], [none |-> FALSE, ids |-> {<<1>>}],
   [none |-> FALSE, ids |-> {<<2>>}]}

\* the configuration of a pass
PassConfigs ==
  [g : PassGageIds, setup : BOOLEAN, sb_launcher : BOOLEAN,
   sim_info : SimInfos, nproc : 1..MaxPool]

\* a plausible slip: the document is written on every pass
WriteSimInfo_always(doc, b, info) == [doc EXCEPT ![b] = info]

\* generate_catchment_files lines 190-207: the document is written unless
\* the file exists
WriteSimInfo(doc, b, info) ==
  IF doc[b] = 0 THEN [doc EXCEPT ![b] = info] ELSE doc

\* Driver.main lines 281-293 with the file_exists and existing_gages of
\* lines 252-264
AppendLedger(file, file_exists, existing_gages, basin_ids) ==
  LET new_gages == NewGages(basin_ids, existing_gages)
      opened    == IF file_exists /\ file.exists THEN file.rows ELSE <<>>
      header    == IF ~file_exists \/ Len(opened) = 0 THEN <<HeaderRow>> ELSE <<>>
  IN [exists |-> TRUE, rows |-> opened \o header \o new_gages]

\* a plausible slip: the results are gathered as soon as one worker is done
AllDone_first(res) ==
  \E b \in DOMAIN res : res[b] \in {"returned", "none", "raised"}

\* pool.map returns or re-raises once every task has ended
AllDone(res) ==
  \A b \in DOMAIN res : res[b] \in {"returned", "none", "raised"}

InitPass ==
  /\ IdleLedger
  /\ ncats = 1 /\ np_per_basin = 1 /\ np_per_basin_adaptive = FALSE
  /\ np_per_basin_local = 0 /\ file_par = 0 /\ pcPlan = "idle"
  /\ IdleSup
  /\ main_pc = "idle"
  /\ this_pass = [n |-> 0]
  /\ results = <<>>
  /\ sim_yaml_file = [b \in Basins |-> 0]
  /\ IdleRun

\* Driver.run lines 341-370 and Driver.main lines 250-271: discovery, the
\* removal of the ledger or the read of its ids, the pool
PassStart ==
  /\ main_pc = "idle" /\ this_pass.n < MaxPasses
  /\ \E c \in PassConfigs :
       LET dirs        == load_gpkg_dirs(c.g)
           file_exists == basins_passed.exists
       IN /\ dirs # {}
          /\ basins_passed' = (IF c.g.none /\ file_exists
                               THEN [exists |-> FALSE, rows |-> <<>>]
                               ELSE basins_passed)
          /\ this_pass' =
               [n |-> this_pass.n + 1, g |-> c.g, setup |-> c.setup,
                sb_launcher |-> c.sb_launcher, sim_info |-> c.sim_info,
                nproc |-> c.nproc, dirs |-> dirs, file_exists |-> file_exists,
                existing_gages |->
                  IF ~c.g.none /\ file_exists /\ Len(basins_passed.rows) > 0
                  THEN ReadExistingGages(basins_passed) ELSE {}]
          /\ results' = [b \in dirs |-> "queued"]
  /\ main_pc' = "map"
  /\ UNCHANGED <<lastPass, repeated, sim_yaml_file, planVars, diskVars,
                 jobVars, invVars, runVars>>

\* a pool worker takes the next basin: generate_catchment_files lines
\* 166-207 (mkdir, chdir, the sim_info document)
WorkerBegin(b) ==
  /\ main_pc = "map" /\ b \in DOMAIN results /\ results[b] = "queued"
  /\ \A a \in DOMAIN results : a < b => results[a] # "queued"
  /\ Cardinality({a \in DOMAIN results : results[a] = "running"}) < this_pass.nproc
  /\ results' = [results EXCEPT ![b] = "running"]
  /\ sim_yaml_file' = (IF this_pass.sb_launcher
                       THEN WriteSimInfo(sim_yaml_file, b, this_pass.sim_info)
                       ELSE sim_yaml_file)
  /\ UNCHANGED <<main_pc, this_pass, planVars, ledgerVars, diskVars, jobVars,
                 invVars, runVars>>

\* generate_catchment_files lines 212-247: it returns None without
\* setup_simulation, returns the basin id and its divides, or raises
WorkerEnd(b) ==
  /\ main_pc = "map" /\ b \in DOMAIN results /\ results[b] = "running"
  /\ \E out \in {IF this_pass.setup THEN "returned" ELSE "none", "raised"} :
       results' = [results EXCEPT ![b] = out]
  /\ UNCHANGED <<main_pc, this_pass, sim_yaml_file, planVars, ledgerVars,
                 diskVars, jobVars, invVars, runVars>>

\* Driver.main lines 274-293: pool.map returns and the ledger is written, or
\* pool.map re-raises the exception of a worker
PassGather ==
  /\ main_pc = "map" /\ AllDone(results)
  /\ IF \E b \in DOMAIN results : results[b] = "raised"
     THEN basins_passed' = basins_passed
     ELSE basins_passed' =
            AppendLedger(basins_passed, this_pass.file_exists,
                         this_pass.existing_gages,
                         SeqOfSet({b \in DOMAIN results : results[b] = "returned"}))
  /\ main_pc' = "idle"
  /\ UNCHANGED <<lastPass, repeated, this_pass, results, sim_yaml_file,
                 planVars, diskVars, jobVars, invVars, runVars>>

NextPass ==
  \/ PassStart
  \/ \E b \in Basins : WorkerBegin(b) \/ WorkerEnd(b)
  \/ PassGather

SpecPass == InitPass /\ [][NextPass]_vars

(***************************************************************************)
(* The run stage: Runner.run and run_ngen_with_calibration                 *)
(* (src/python/runner.py), and the loop of the runner.py script            *)
(***************************************************************************)
\* a path is [abs, parts]; a directory is the sequence of its components
\* from the file-system root
LaunchDir == <<"root">>

\* the directories of basin b under the input and output roots
OwnIn(b) == <<"root", "in", b>>
OwnOut(b) == <<"root", "out", b>>

\* input_dir / output_dir of the workflow config, given absolute or
\* relative to the directory the program is started in
RootPath(name, abs) ==
  [abs |-> abs, parts |-> IF abs THEN <<"root", name>> ELSE <<name>>]

\* pathlib's p / q and os.path.join(p, q) for a relative q
Join(p, q) == [abs |-> p.abs, parts |-> p.parts \o q]

\* the directory or file a path names for a process whose working
\* directory is cwd
Resolve(cwd, p) == IF p.abs THEN p.parts ELSE cwd \o p.parts

\* simulation.gage_ids of the run: absent, one id as a string, or a list
RunGageIds ==
  {[kind |-> "none", ids |-> <<>>], [kind |-> "str", ids |-> <<1>>],
   [kind |-> "str", ids |-> <<2>>], [kind |-> "list", ids |-> <<>>],
   [kind |-> "list", ids |-> <<1>>], [kind |-> "list", ids |-> <<1, 2>>]}

\* simulation.task_type ('control' when absent)
TaskTypes == {"calibration", "validation", "calibvalid", "restart", "control"}

\* the configurations of a run of Runner
RunnerConfigs ==
  [program : {"Runner"}, gage_ids : RunGageIds, task_type : TaskTypes,
   np_per_basin : 1..2, basins_in_par : 1..MaxPool,
   input_abs : BOOLEAN, output_abs : BOOLEAN]

\* the configurations of a run of the runner.py script: no allow-list, one
\* process, every calibration task type takes the same path
ScriptConfigs ==
  [program : {"script"}, gage_ids : {[kind |-> "none", ids |-> <<>>]},
   task_type : {"calibration"}, np_per_basin : 1..2, basins_in_par : {1},
   input_abs : BOOLEAN, output_abs : BOOLEAN]

\* the ledgers a config-generation pass leaves: every basin, or all but one
RunLedgers ==
  {WriteLedger([exists |-> FALSE, rows |-> <<>>], [none |-> TRUE, ids |-> {}],
               SeqOfSet(S)) : S \in {Basins, Basins \ {2}}}

\* pd.read_csv: the gage_id column, in file order
RECURSIVE IdColumn(_)
IdColumn(rows) ==
  IF Len(rows) <= 1 THEN <<>>
  ELSE Append(IdColumn(SubSeq(rows, 1, Len(rows) - 1)), rows[Len(rows)][1])

\* Python's  x in list
InList(x, l) == \E i \in 1..Len(l) : l[i] = x

\* Runner.load_configuration lines 100-107: self.gage_ids is assigned only
\* when simulation.gage_ids is a single string
LoadGageIds(g) ==
  IF g.kind = "str" THEN [assigned |-> TRUE, ids |-> g.ids]
  ELSE [assigned |-> FALSE, ids |-> <<>>]

\* Runner.run lines 35-37: the rows whose gage_id is in self.gage_ids
FilterInData(ids, allow) ==
  IF allow # <<>> THEN SelectSeq(ids, LAMBDA b : InList(b, allow)) ELSE ids

\* a plausible slip: validation is run before the calibration
StageAfter_validfirst(task_type, stage) ==
  IF stage = "planned"
  THEN (IF task_type \in {"validation", "calibvalid"} THEN "validating"
        ELSE IF task_type \in {"calibration", "restart"} THEN "calibrating"
        ELSE "done")
  ELSE IF stage = "validating"
  THEN (IF task_type = "calibvalid" THEN "calibrating" ELSE "done")
  ELSE "done"

\* run_ngen_with_calibration lines 165-211: the external process started
\* after the one of stage has returned (subprocess.call blocks)
StageAfter(task_type, stage) ==
  IF stage = "planned"
  THEN (IF task_type \in {"calibration", "calibvalid", "restart"} THEN "calibrating"
        ELSE IF task_type \in {"validation", "calibvalid"} THEN "validating"
        ELSE "done")
  ELSE IF stage = "calibrating"
  THEN (IF task_type \in {"validation", "calibvalid"} THEN "validating" ELSE "done")
  ELSE "done"

\* a basin of the workload before a process takes it
QueuedTask ==
  [stage |-> "queued", partition |-> "none", calib |-> "no", valid |-> "no",
   handed |-> <<>>]

InitRun ==
  /\ basins_passed \in RunLedgers
  /\ lastPass = [ran |-> FALSE] /\ repeated = FALSE
  /\ ncats = 1 /\ np_per_basin = 1 /\ np_per_basin_adaptive = FALSE
  /\ np_per_basin_local = 0 /\ file_par = 0 /\ pcPlan = "idle"
  /\ IdleSup /\ IdlePass
  /\ run_cfg \in RunnerConfigs \cup ScriptConfigs
  /\ run_pc = "init"
  /\ self_gage_ids = [assigned |-> FALSE, ids |-> <<>>]
  /\ task = <<>>
  /\ pool = <<>>

RunFrame == UNCHANGED <<run_cfg, planVars, ledgerVars, diskVars, jobVars,
                        invVars, passVars>>

\* Runner.__init__ / load_configuration
RunnerLoad ==
  /\ run_cfg.program = "Runner" /\ run_pc = "init"
  /\ self_gage_ids' = LoadGageIds(run_cfg.gage_ids)
  /\ run_pc' = "loaded"
  /\ UNCHANGED <<task, pool>>
  /\ RunFrame

\* Runner.run lines 30-50: the ledger is read and filtered and the workload
\* is handed to the pool; `if self.gage_ids` raises AttributeError when the
\* attribute was never assigned, and run_ngen_without_calibration raises
\* NameError (indata is not defined there)
RunnerRun ==
  /\ run_cfg.program = "Runner" /\ run_pc = "loaded"
  /\ IF ~self_gage_ids.assigned
        \/ run_cfg.task_type \notin {"calibration", "validation", "calibvalid", "restart"}
     THEN /\ run_pc' = "raised"
          /\ UNCHANGED <<task, pool>>
     ELSE LET indata == FilterInData(IdColumn(basins_passed.rows), self_gage_ids.ids)
          IN /\ task' = [b \in {indata[i] : i \in 1..Len(indata)} |-> QueuedTask]
             /\ pool' = [w \in 1..run_cfg.basins_in_par |->
                           [cwd |-> LaunchDir, basin |-> 0]]
             /\ run_pc' = "pool"
  /\ UNCHANGED self_gage_ids
  /\ RunFrame

\* runner.py lines 113-117: the script loops over every row of the ledger
\* in its own process
ScriptRun ==
  /\ run_cfg.program = "script" /\ run_pc = "init"
  /\ LET indata == IdColumn(basins_passed.rows)
     IN task' = [b \in {indata[i] : i \in 1..Len(indata)} |-> QueuedTask]
  /\ pool' = [w \in 1..1 |-> [cwd |-> LaunchDir, basin |-> 0]]
  /\ run_pc' = "pool"
  /\ UNCHANGED self_gage_ids
  /\ RunFrame

\* o_dir and i_dir of a basin (lines 147-148)
o_dir(b) == Join(RootPath("out", run_cfg.output_abs), <<b>>)
i_dir(b) == Join(RootPath("in", run_cfg.input_abs), <<b>>)

\* a process takes the next basin: os.chdir(o_dir) and the glob of the
\* descriptor (lines 145-154); chdir raises FileNotFoundError when o_dir
\* names no directory, glob(...)[0] raises IndexError when i_dir does not
\* name the basin's input directory
TaskBegin(w, b) ==
  /\ run_pc = "pool" /\ pool[w].basin = 0
  /\ b \in DOMAIN task /\ task[b].stage = "queued"
  /\ \A a \in DOMAIN task : a < b => task[a].stage # "queued"
  /\ run_cfg.program = "script" => \A a \in DOMAIN task : task[a].stage # "raised"
  /\ LET target == Resolve(pool[w].cwd, o_dir(b))
     IN IF target # OwnOut(b)
        THEN /\ task' = [task EXCEPT ![b].stage = "raised"]
             /\ pool' = pool
        ELSE IF Resolve(target, i_dir(b)) # OwnIn(b)
        THEN /\ task' = [task EXCEPT ![b].stage = "raised"]
             /\ pool' = [pool EXCEPT ![w].cwd = target]
        ELSE /\ task' = [task EXCEPT ![b].stage = "entered"]
             /\ pool' = [pool EXCEPT ![w] = [cwd |-> target, basin |-> b]]
  /\ UNCHANGED <<run_pc, self_gage_ids>>
  /\ RunFrame

\* lines 155-161 and generate_partition_basin_file: the partition program
\* is run when more than one worker is planned, and its result is dropped
TaskPlan(w) ==
  /\ run_pc = "pool" /\ pool[w].basin # 0
  /\ LET b == pool[w].basin
         r == LaunchWorkers(NumDivides(b), run_cfg.np_per_basin, TRUE)
     IN /\ task[b].stage = "entered"
        /\ \E outcome \in (IF r.fpar > 0 THEN {"ok", "failed"} ELSE {"none"}) :
             task' = [task EXCEPT ![b].stage = "planned",
                                  ![b].partition = outcome]
  /\ UNCHANGED <<run_pc, self_gage_ids, pool>>
  /\ RunFrame

\* the directory of the partition file under the basin's output directory:
\* configs (Runner, line 228) or json (the script, line 176)
PartitionDir == IF run_cfg.program = "script" THEN "json" ELSE "configs"

\* the paths written into the configuration of the external command
\* (ConfigurationCalib: gpkg_file, output_dir, realization_file_par), as the
\* command running in cwd resolves them
HandedPaths(cwd, b, partitioned) ==
  [gpkg |-> Resolve(cwd, Join(i_dir(b), <<"data">>)),
   output_dir |-> Resolve(cwd, o_dir(b)),
   file_par |-> IF partitioned THEN Resolve(cwd, Join(o_dir(b), <<PartitionDir>>))
                ELSE <<>>]

\* lines 165-211: the process started last has returned and the next one,
\* if any, is started (subprocess.call); the script runs ngen.cal only
TaskStep(w) ==
  /\ run_pc = "pool" /\ pool[w].basin # 0
  /\ LET b    == pool[w].basin
         t    == task[b]
         next == IF run_cfg.program = "script" /\ t.stage = "calibrating"
                 THEN "done" ELSE StageAfter(run_cfg.task_type, t.stage)
     IN /\ t.stage \in {"planned", "calibrating", "validating"}
        /\ task' = [task EXCEPT ![b] =
                      [stage |-> next,
                       partition |-> t.partition,
                       calib |-> IF next = "calibrating" THEN "running"
                                 ELSE IF t.stage = "calibrating" THEN "returned"
                                 ELSE t.calib,
                       valid |-> IF next = "validating" THEN "running"
                                 ELSE IF t.stage = "validating" THEN "returned"
                                 ELSE t.valid,
                       handed |-> IF t.stage = "planned" /\ next # "done"
                                  THEN HandedPaths(pool[w].cwd, b, t.partition # "none")
                                  ELSE t.handed]]
        /\ pool' = [pool EXCEPT ![w].basin = IF next = "done" THEN 0 ELSE b]
  /\ UNCHANGED <<run_pc, self_gage_ids>>
  /\ RunFrame

\* pool.map returns, or re-raises the exception of a worker once every task
\* has ended; in the script an exception ends the loop at once
RunGather ==
  /\ run_pc = "pool"
  /\ \/ \A b \in DOMAIN task : task[b].stage \in {"done", "raised"}
     \/ /\ run_cfg.program = "script"
        /\ \E b \in DOMAIN task : task[b].stage = "raised"
  /\ run_pc' = (IF \E b \in DOMAIN task : task[b].stage = "raised"
                THEN "raised" ELSE "done")
  /\ UNCHANGED <<self_gage_ids, task, pool>>
  /\ RunFrame

NextRun ==
  \/ RunnerLoad \/ RunnerRun \/ ScriptRun
  \/ \E w \in 1..MaxPool :
       \/ w \in DOMAIN pool /\ \E b \in Basins : TaskBegin(w, b)
       \/ w \in DOMAIN pool /\ TaskPlan(w)
       \/ w \in DOMAIN pool /\ TaskStep(w)
  \/ RunGather

SpecRun == InitRun /\ [][NextRun]_vars


(***************************************************************************)
(* Claims                                                                  *)
(***************************************************************************)

\* C1: PartitionPlanner.plan returns catchment_count when it is at most the
\* processor budget; otherwise min(floor(catchment_count / budget), 20) when
\* adaptive; otherwise the processor budget.
C1_PlanRule ==
  pcPlan = "planned" =>
    np_per_basin_local =
      (CASE ncats <= np_per_basin -> ncats
         [] ncats > np_per_basin /\ np_per_basin_adaptive ->
              (IF ncats \div np_per_basin < 20 THEN ncats \div np_per_basin ELSE 20)
         [] OTHER -> np_per_basin)

\* the scenario (200, 10, adaptive) gives 20: the cap is reached
C1_Witness ==
  /\ pcPlan = "planned"
  /\ ncats = 200 /\ np_per_basin = 10 /\ np_per_basin_adaptive
  /\ np_per_basin_local = 20

\* C2 (as stated): the worker count a basin is launched with is in
\* [1, processor_budget] and never exceeds the catchment count.
C2_Original ==
  pcPlan = "launched" =>
    /\ np_per_basin_local \in 1..np_per_basin
    /\ np_per_basin_local <= ncats

\* C2 (amended): the worker count a basin is launched with is at least 1 and
\* never exceeds the catchment count; it is at most the processor budget
\* unless adaptive planning is on and the catchment count exceeds the
\* budget, in which case it is at most 20 (and may exceed the budget).
C2_Amended ==
  pcPlan = "launched" =>
    /\ np_per_basin_local >= 1
    /\ np_per_basin_local <= ncats
    /\ (np_per_basin_adaptive /\ ncats > np_per_basin)
          => np_per_basin_local <= 20
    /\ (~np_per_basin_adaptive \/ ncats <= np_per_basin)
          => np_per_basin_local <= np_per_basin

\* an adaptive launch whose worker count exceeds the processor budget
C2_Witness ==
  /\ pcPlan = "launched"
  /\ np_per_basin_adaptive /\ ncats > np_per_basin
  /\ np_per_basin_local > np_per_basin
  /\ np_per_basin_local = 20

\* C8: ledger idempotence: after config-generation passes, with or without
\* an allow-list, the ledger holds exactly one header row (the first) and at
\* most one row per basin id; after two passes over the same basins each of
\* those basins has exactly one row.
C8_LedgerIdempotent ==
  basins_passed.exists =>
    /\ Len(basins_passed.rows) >= 1 => basins_passed.rows[1] = HeaderRow
    /\ CountRows(HeaderRow) <= 1
    /\ \A b \in Basins : CountRows(Row(b)) <= 1
    /\ lastPass.ran /\ lastPass.completed => CountRows(HeaderRow) = 1
    /\ repeated => \A b \in lastPass.dirs : CountRows(Row(b)) = 1

\* the same allow-listed basins were recorded by two passes in a row
C8_Witness ==
  /\ repeated
  /\ ~lastPass.none
  /\ Cardinality(lastPass.dirs) >= 2
  /\ \A b \in lastPass.dirs : CountRows(Row(b)) = 1

\* C3: at the wallclock deadline a running job is first sent a graceful
\* termination request and is force-killed only after that; no job is
\* force-killed without a prior graceful termination request.
C3_GracefulBeforeKill ==
  launcher = "hpc" =>
    \A g \in Gages : proc[g] = "TERMINATED" => terminate_called[g]

C5_OneLivePerBasinStage ==
  launcher # "none" =>
    \A g \in Gages : \A st \in Stages :
      jobs[g][st] + (IF proc[g] = "RUNNING" THEN 1 ELSE 0) <= 1

\* C6: after the poll loop the supervisor resubmits itself if and only if
\* some basin is incomplete, a basin being incomplete exactly when its own
\* re-read current iteration is below its own max_iteration and it has no
\* validation artifact; otherwise it reports completion.
C6_ResubmitIffIncomplete ==
  [][(launcher = "hpc" /\ pc = "recheck" /\ pc' # "recheck")
       => ((decision' = "resubmit") <=>
             \E g \in Gages :
               /\ get_current_iteration(info_file, best_params, g)
                    < get_max_iter_for_gage(calib_cfg, g)
               /\ ~validation_file[g])]_vars

\* C7: every code path that derives the current iteration returns 0 when the
\* checkpoint artifact is absent and v + 1 when its first value is v.
C7_CheckpointRule ==
  [][(pc = "launch" /\ gi' = gi + 1)
       => current_iter' = (IF best_params[gage_ids[gi]] = <<>> THEN 0
                           ELSE best_params[gage_ids[gi]][1] + 1)]_vars

\* C9: the number of concurrently live dispatched basin jobs of an
\* invocation never exceeds the configured concurrency budget basins_in_par.
C9_ConcurrencyBudget ==
  launcher = "hpc" =>
    Cardinality({g \in Gages : proc[g] = "RUNNING"}) <= basins_in_par

\* C10: a basin-local failure never aborts the run: after a
\* config-generation pass every basin of the pass that did not itself fail
\* is recorded in the ledger.
C10_FailureIsolation ==
  (lastPass.ran /\ lastPass.setup) =>
    \A b \in lastPass.dirs \ lastPass.failed : b \in LedgerIds

\* the gage of the current iteration of the launch loop
LaunchGage == IF launcher = "batch" THEN mapping_keys[gi] ELSE gage_ids[gi]

\* C11: a basin for which a validation artifact exists is never dispatched
\* by a launch iteration and is never placed in the incomplete set that
\* triggers resubmission, whatever its current and maximum iteration are.
C11_ValidationShortCircuit ==
  [][/\ (pc = "launch" /\ gi' = gi + 1 /\ validation_file[LaunchGage])
          => dispatched' = "none"
     /\ (launcher = "hpc" /\ pc = "recheck" /\ pc' # "recheck")
          => \A g \in StillIncomplete : ~validation_file[g]]_vars

C13_ModeExclusive ==
  launcher = "hpc" =>
    /\ use_slurm => \A g \in Gages : proc[g] = "PENDING"
    /\ ~use_slurm => \A g \in Gages : \A st \in Stages : jobs[g][st] = 0

\* C14: with no external clean operation, two successive progress reads for
\* the same basin never return a smaller current_iteration on the later
\* read: the re-read after the poll loop of the gage read last by the launch
\* loop is not below the value the launch loop read.
C14_MonotoneIteration ==
  [][(launcher = "hpc" /\ pc = "recheck" /\ pc' # "recheck")
       => get_current_iteration(info_file, best_params, gage_ids[Len(gage_ids)])
            >= current_iter]_vars

\* C15: each basin's lifecycle stage only moves forward along discovered (0),
\* config-generated (1: its generated configs are on disk), running or
\* completed (2: it has a checkpoint), validated (3: it has a validation
\* artifact): no launch iteration of a supervisor, config generation on a
\* later pass included, moves a basin back to an earlier stage.
C15_LifecycleForward ==
  [][(pc = "launch" /\ gi' = gi + 1)
       => LET Stage(vf, bp, cf, g) ==
                IF vf[g] THEN 3
                ELSE IF bp[g] # <<>> THEN 2
                ELSE IF cf[g] THEN 1 ELSE 0
          IN \A g \in Gages :
               Stage(validation_file', best_params', configs', g)
                 >= Stage(validation_file, best_params, configs, g)]_vars

\* C19: external config generation is requested for a basin only when its
\* current_iteration is 0 and no prior config-generation record (the info
\* file written at its first config generation) exists for it.
C19_ConfigGenOnce ==
  [][(pc = "launch" /\ gi' = gi + 1 /\ config_requested')
       => (current_iter' = 0 /\ ~info_file[LaunchGage])]_vars

\* C16 (as stated): discover: when an allow-list of ids is supplied, the
\* workload is exactly the set of discovered basins whose descriptor
\* filename contains at least one listed id; when none is supplied it is
\* every discovered basin.
C16_Original ==
  (lastPass.ran /\ lastPass.dirs # {}) =>
    lastPass.dirs =
      (IF lastPass.none THEN Basins
       ELSE {b \in Basins : \E gid \in lastPass.ids : Contains(Stem(b), gid)})

\* C16 (amended): when a non-empty allow-list of ids is supplied, the
\* workload is exactly the set of discovered basins whose descriptor
\* filename contains at least one listed id; when no allow-list or an empty
\* one is supplied it is every discovered basin.
C16_Amended ==
  lastPass.ran =>
    lastPass.dirs =
      (IF lastPass.none \/ lastPass.ids = {} THEN Basins
       ELSE {b \in Basins : \E gid \in lastPass.ids : Contains(Stem(b), gid)})

\* a pass whose allow-list retained a basin by an id that is a proper part
\* of its descriptor filename, and dropped another basin
C16_Witness ==
  /\ lastPass.ran /\ ~lastPass.none
  /\ lastPass.ids = {<<1>>}
  /\ lastPass.dirs = {1, 3}

\* C17: when discovery yields an empty workload the run fails fatally,
\* without retry, before any basin is config-generated and with the ledger
\* left unchanged.
C17_EmptyWorkloadFatal ==
  [][(lastPass'.ran /\ lastPass'.dirs = {})
       => /\ ~lastPass'.completed
          /\ lastPass'.failed = {}
          /\ basins_passed' = basins_passed]_vars

\* a run with an allow-list that matches no basin has failed, and the ledger
\* written by earlier passes is still there
C17_Witness ==
  /\ lastPass.ran /\ lastPass.dirs = {} /\ ~lastPass.completed
  /\ ~lastPass.none /\ lastPass.ids = {<<2, 1>>}
  /\ basins_passed.exists /\ Len(basins_passed.rows) > 1

\* C18: the ledger is append-only: every row recorded in the ledger before
\* a config-generation pass is still recorded, unchanged, after the pass,
\* whether or not an allow-list was supplied for that pass.
C18_LedgerAppendOnly ==
  [][\A i \in 2..Len(basins_passed.rows) :
       /\ basins_passed'.exists
       /\ \E j \in 2..Len(basins_passed'.rows) :
            basins_passed'.rows[j] = basins_passed.rows[i]]_vars

\* C20: every invocation of the supervisor eventually reaches its
\* resubmit-or-complete decision, even when a dispatched job never exits on
\* its own; a stuck job does not keep the deadline from being noticed nor
\* the other still-running jobs from being terminated: once the deadline has
\* passed in the poll loop, no child of the invocation is left running.
C20_SupervisorDecides ==
  /\ (pc = "launch" /\ gi = 1) ~> (decision # "none")
  /\ (pc = "poll" /\ deadline) ~> (\A g \in Gages : proc[g] # "RUNNING")

\* the invocation has reached its decision after the deadline, having killed
\* a child that never exited and seen another one end by itself
C20_Witness ==
  /\ launcher = "hpc" /\ ~use_slurm /\ deadline
  /\ decision \in {"resubmit", "complete"}
  /\ proc[1] = "TERMINATED" /\ proc[2] = "COMPLETED"

\* C21: the supervisor never terminates or kills a dispatched job before
\* the wallclock deadline is reached, and it leaves the polling phase only
\* when no dispatched job is alive or the deadline has been reached.
C21_NoKillBeforeDeadline ==
  [][/\ \A g \in Gages :
          (\/ proc[g] = "RUNNING" /\ proc'[g] = "TERMINATED"
           \/ ~terminate_called[g] /\ terminate_called'[g])
            => deadline
     /\ (pc = "poll" /\ pc' # "poll")
          => (deadline \/ \A g \in running_processes : proc[g] # "RUNNING")]_vars

\* after the deadline the termination loop has killed a child that was still
\* running when the poll loop was left
C21_Witness ==
  /\ launcher = "hpc" /\ pc = "terminate" /\ deadline
  /\ \E g \in running_processes : proc[g] = "TERMINATED"

\* C27: for a basin whose generated calibration configuration file is
\* missing, the maximum iteration is read as 0, in every code path that
\* reads it.
C27_MissingConfigZero ==
  (pc = "launch" /\ gi > 1 /\ calib_cfg[gage_ids[gi - 1]] = <<>>)
    => max_iter = 0

\* C23: stateless restart: the progress read of a basin is left unchanged by
\* every step that only changes process liveness or the supervisor's
\* position (no process has written), and every decision of an invocation
\* (config generation, the stage dispatched, resubmit or complete) is the
\* value of a function of the on-disk artifacts alone, whatever processes
\* are alive and whatever an earlier invocation held in memory.
C23_StatelessRestart ==
  [][/\ (best_params' = best_params)
          => \A g \in Gages :
               get_current_iteration(info_file', best_params', g)
                 = get_current_iteration(info_file, best_params, g)
     /\ (launcher = "hpc" /\ pc = "launch" /\ gi' = gi + 1)
          => LET g   == gage_ids[gi]
                 cur == get_current_iteration(info_file, best_params, g)
             IN /\ config_requested' = (cur = 0)
                /\ dispatched' = (IF cur < get_max_iter_for_gage(calib_cfg', g)
                                  THEN CalibFile(cur) ELSE "none")
     /\ (launcher = "batch" /\ pc = "launch" /\ gi' = gi + 1)
          => LET g   == mapping_keys[gi]
                 cur == get_current_iteration_batch(info_file, best_params, g)
                 go  == /\ cur <= get_max_iter(calib_cfg, g)
                        /\ ~check_validation_exists(info_file', validation_file, g)
             IN /\ config_requested' = (cur = 0)
                /\ dispatched' =
                     (IF ~go THEN "none"
                      ELSE IF SandboxFileBatch(cur, get_max_iter(calib_cfg', g))
                                = "validation"
                      THEN "validate" ELSE CalibFileBatch(cur))
     /\ (launcher = "hpc" /\ pc = "recheck" /\ pc' # "recheck")
          => ((decision' = "resubmit") <=>
                \E g \in Gages :
                  get_current_iteration(info_file, best_params, g)
                    < get_max_iter_for_gage(calib_cfg, gage_ids[Len(gage_ids)]))]_vars

\* an invocation has dispatched the restart of a gage of which a job started
\* by an earlier invocation is still alive
C23_Witness ==
  /\ launcher = "hpc" /\ pc = "launch" /\ gi > 1
  /\ dispatched = "restart"
  /\ \E st \in Stages : jobs[gage_ids[gi - 1]][st] > 0

\* C26: during a config-generation pass with parallel workers the ledger is
\* written only by the controlling process, after every worker has returned
\* its result; no step of a worker changes the ledger, and the write leaves
\* exactly one row for every basin a worker returned and keeps the rows that
\* were there when an allow-list is given.
C26_LedgerByControlOnly ==
  [][/\ (main_pc = "map" /\ main_pc' = "map") => basins_passed' = basins_passed
     /\ (basins_passed'.exists /\ basins_passed' # basins_passed)
          => /\ main_pc = "map" /\ main_pc' = "idle"
             /\ \A b \in this_pass.dirs : results[b] \in {"returned", "none"}
             /\ \A b \in this_pass.dirs :
                  results[b] = "returned"
                    => Cardinality({i \in 1..Len(basins_passed'.rows) :
                                      basins_passed'.rows[i] = Row(b)}) = 1
             /\ ~this_pass.g.none
                  => SubSeq(basins_passed'.rows, 1, Len(basins_passed.rows))
                       = basins_passed.rows]_vars

\* a pass with two workers in parallel has written the ledger after both
\* basins were returned, on top of the rows of an earlier pass
C26_Witness ==
  /\ main_pc = "idle" /\ this_pass.n = 2 /\ this_pass.nproc = 2
  /\ ~this_pass.g.none /\ this_pass.file_exists
  /\ \A b \in this_pass.dirs : results[b] = "returned"
  /\ \A b \in this_pass.dirs : b \in LedgerIds
  /\ LedgerIds # this_pass.dirs

\* C28: the experiment metadata document of a basin is written once: after
\* it has been written, every later step of a config-generation pass leaves
\* it unchanged.
C28_SimInfoWrittenOnce ==
  [][\A b \in Basins :
       sim_yaml_file[b] # 0 => sim_yaml_file'[b] = sim_yaml_file[b]]_vars

\* a later pass configured with another sim_info has run the metadata step
\* of a basin whose document an earlier pass wrote
C28_Witness ==
  /\ this_pass.n = 2 /\ this_pass.sb_launcher
  /\ \E b \in this_pass.dirs :
       /\ results[b] \in {"running", "returned", "none"}
       /\ sim_yaml_file[b] # 0
       /\ sim_yaml_file[b] # this_pass.sim_info

\* the basins of the ledger, and those of them a supplied allow-list admits
RunLedgerIds == {basins_passed.rows[i][1] : i \in 2..Len(basins_passed.rows)}
RunAllowed ==
  IF run_cfg.gage_ids.ids = <<>> THEN RunLedgerIds
  ELSE {b \in RunLedgerIds : InList(b, run_cfg.gage_ids.ids)}

\* C24: once a run of Runner for a calibration task type with absolute
\* input and output roots has ended, the basins it dispatched are exactly
\* the ledger's basins that pass the allow-list (given as one id or a list)
C24_WorkloadIsLedgerCutByAllowList ==
  (/\ run_cfg.program = "Runner" /\ run_pc \in {"done", "raised"}
   /\ run_cfg.task_type \in {"calibration", "validation", "calibvalid", "restart"}
   /\ run_cfg.input_abs /\ run_cfg.output_abs)
    => {b \in DOMAIN task : task[b].stage # "queued"} = RunAllowed

\* C25: in a run of Runner, a basin whose partition generation failed has no
\* calibration or validation process started for it
C25_FailedPartitionNotLaunched ==
  run_cfg.program = "Runner" =>
    \A b \in DOMAIN task :
      task[b].partition = "failed" => task[b].calib = "no" /\ task[b].valid = "no"

\* C29: in a workload of several basins, what the external command of a
\* basin is handed names that basin's own descriptor directory, output
\* directory and partition path, whether the roots are relative or absolute
C29_HandedPathsAreOwn ==
  Cardinality(DOMAIN task) > 1 =>
    \A b \in DOMAIN task :
      task[b].handed # <<>> =>
        /\ task[b].handed.gpkg = OwnIn(b) \o <<"data">>
        /\ task[b].handed.output_dir = OwnOut(b)
        /\ task[b].handed.file_par \in {<<>>, OwnOut(b) \o <<PartitionDir>>}

C22_ChainCompletes ==
  <>(pc = "exit" /\ decision \in {"complete", "nothing_to_run"})

====
